---- MODULE Spec2Model ----
(***************************************************************************)
(* The CSS selector builder of core-js-101 (SelectorBuilder, its prototype *)
(* methods and the shared cssSelectorBuilder entry point).                 *)
(*                                                                         *)
(* A JavaScript string is a sequence of one-character strings.  An object  *)
(* created by `new SelectorBuilder(..)` is an element of `heap`: its two   *)
(* fields together with the call expression that built it, which is what   *)
(* tells one object from another.                                          *)
(***************************************************************************)
EXTENDS Integers, Sequences, FiniteSets, TLC

\* ------------------------------------------------------------------ bounds
\* number of SelectorBuilder objects ever allocated (the entry point included)
MaxHeap == 4

\* ------------------------------------------------------- string helpers
RECURSIVE join(_, _)
\* Array.prototype.join(sep)
join(list, sep) ==
  IF list = <<>> THEN <<>>
  ELSE IF Len(list) = 1 THEN list[1]
  ELSE list[1] \o sep \o join(Tail(list), sep)

\* Array.prototype.slice(start, end) with JavaScript's negative indices
slice(list, start, end) ==
  LET n == Len(list)
      from == IF start < 0 THEN (IF n + start < 0 THEN 0 ELSE n + start)
              ELSE (IF start > n THEN n ELSE start)
      to == IF end < 0 THEN (IF n + end < 0 THEN 0 ELSE n + end)
            ELSE (IF end > n THEN n ELSE end)
  IN IF to <= from THEN <<>> ELSE SubSeq(list, from + 1, to)

LowerCase == <<"a","b","c","d","e","f","g","h","i","j","k","l","m",
               "n","o","p","q","r","s","t","u","v","w","x","y","z">>
UpperCase == <<"A","B","C","D","E","F","G","H","I","J","K","L","M",
               "N","O","P","Q","R","S","T","U","V","W","X","Y","Z">>

\* String.prototype.toUpperCase on one character
toUpperCase(c) ==
  IF \E i \in 1..Len(LowerCase) : LowerCase[i] = c
  THEN UpperCase[CHOOSE i \in 1..Len(LowerCase) : LowerCase[i] = c]
  ELSE c

\* ----------------------------------------------------------------- Utils
capitalize(str) == <<toUpperCase(str[1])>> \o Tail(str)

joinColon(list) == join(list, <<",", " ">>)

\* joinStart slicing the rest up to the last element instead of the last two
joinStart_RestToLast(list) ==
  LET first == list[1]
      rest == slice(list, 1, Len(list) - 1)
      lastTwo == slice(list, Len(list) - 2, Len(list))
  IN join(<<capitalize(first)>> \o rest \o <<join(lastTwo, <<" ","a","n","d"," ">>)>>,
          <<",", " ">>)

joinStart(list) ==
  LET first == list[1]
      rest == slice(list, 1, Len(list) - 2)
      lastTwo == slice(list, Len(list) - 2, Len(list))
  IN join(<<capitalize(first)>> \o rest \o <<join(lastTwo, <<" ","a","n","d"," ">>)>>,
          <<",", " ">>)

\* ------------------------------------------------------ the kind table
ORDERED_SELECTORS == <<
  [name |-> "element", unique |-> TRUE,
   errorName |-> <<"e","l","e","m","e","n","t">>],
  [name |-> "id", unique |-> TRUE,
   errorName |-> <<"i","d">>],
  [name |-> "class", unique |-> FALSE,
   errorName |-> <<"c","l","a","s","s">>],
  [name |-> "attr", unique |-> FALSE,
   errorName |-> <<"a","t","t","r","i","b","u","t","e">>],
  [name |-> "pseudoClass", unique |-> FALSE,
   errorName |-> <<"p","s","e","u","d","o","-","c","l","a","s","s">>],
  [name |-> "pseudoElement", unique |-> TRUE,
   errorName |-> <<"p","s","e","u","d","o","-","e","l","e","m","e","n","t">>] >>

\* the array indices of ORDERED_SELECTORS (JavaScript counts from 0)
Orders == 0 .. (Len(ORDERED_SELECTORS) - 1)

\* the config entry at a JavaScript index
Config(order) == ORDERED_SELECTORS[order + 1]

\* toString with the attribute's closing bracket forgotten
toString_NoClose(order, s) ==
  CASE order = 0 -> s
    [] order = 1 -> <<"#">> \o s
    [] order = 2 -> <<".">> \o s
    [] order = 3 -> <<"[">> \o s
    [] order = 4 -> <<":">> \o s
    [] order = 5 -> <<":", ":">> \o s

\* the toString field of the config entry at index `order`
toString(order, s) ==
  CASE order = 0 -> s
    [] order = 1 -> <<"#">> \o s
    [] order = 2 -> <<".">> \o s
    [] order = 3 -> <<"[">> \o s \o <<"]">>
    [] order = 4 -> <<":">> \o s
    [] order = 5 -> <<":", ":">> \o s

\* ------------------------------------------------------- error messages
WRONG_ORDER ==
  <<"S","e","l","e","c","t","o","r"," ","p","a","r","t","s"," ","s","h","o",
    "u","l","d"," ","b","e"," ","a","r","r","a","n","g","e","d"," ","i","n",
    " ","t","h","e"," ","f","o","l","l","o","w","i","n","g"," ","o","r","d",
    "e","r",":"," ">>
  \o joinColon([i \in 1..Len(ORDERED_SELECTORS) |-> ORDERED_SELECTORS[i].errorName])

UNIQUES_REPEAT ==
  joinStart(LET uniques == SelectSeq(ORDERED_SELECTORS, LAMBDA o : o.unique)
            IN [i \in 1..Len(uniques) |-> uniques[i].errorName])
  \o <<" ","s","h","o","u","l","d"," ","n","o","t"," ","o","c","c","u","r",
       " ","m","o","r","e"," ","t","h","e","n"," ","o","n","e"," ","t","i",
       "m","e"," ","i","n","s","i","d","e"," ","t","h","e"," ","s","e","l",
       "e","c","t","o","r">>

\* "no exception was thrown"
NoError == <<>>

\* ------------------------------------------------------------- objects
DefaultOrder == -1
DefaultSelector == <<>>

\* the constructor; order = -1 and selector = '' are its defaults
SelectorBuilder(order, selector) == [selector |-> selector, order |-> order]

\* the shared entry point, `new SelectorBuilder()`
cssSelectorBuilder == SelectorBuilder(DefaultOrder, DefaultSelector)

\* check letting the next lower rank through
check_OffByOne(this, order, isUnique) ==
  IF this.order > order + 1 THEN WRONG_ORDER
  ELSE IF isUnique /\ this.order = order THEN UNIQUES_REPEAT
  ELSE NoError

\* check comparing the ranks with >= instead of >
check_GE(this, order, isUnique) ==
  IF this.order >= order THEN WRONG_ORDER
  ELSE IF isUnique /\ this.order = order THEN UNIQUES_REPEAT
  ELSE NoError

\* check taking every kind for a unique one
check_IgnoreUnique(this, order, isUnique) ==
  IF this.order > order THEN WRONG_ORDER
  ELSE IF this.order = order THEN UNIQUES_REPEAT
  ELSE NoError

\* check without the test for a repeated unique kind
check_NoUniqueTest(this, order, isUnique) ==
  IF this.order > order THEN WRONG_ORDER ELSE NoError

\* SelectorBuilder.prototype.check: the message of the Error it throws, or NoError
check(this, order, isUnique) ==
  IF this.order > order THEN WRONG_ORDER
  ELSE IF isUnique /\ this.order = order THEN UNIQUES_REPEAT
  ELSE NoError

\* SelectorBuilder.prototype.stringify: the receiver after the call and the
\* string returned
stringify(this) == [this |-> this, out |-> this.selector]

\* combine without the spaces around the combinator
combine_NoPad(this, selector1, combinator, selector2) ==
  [this |-> this, selector1 |-> selector1, selector2 |-> selector2,
   ret |-> << SelectorBuilder(DefaultOrder,
                selector1.selector \o combinator \o selector2.selector) >>,
   error |-> NoError]

\* combine handing the right operand's order on to its result
combine_KeepOrder(this, selector1, combinator, selector2) ==
  [this |-> this, selector1 |-> selector1, selector2 |-> selector2,
   ret |-> << SelectorBuilder(selector2.order,
                selector1.selector \o <<" ">> \o combinator \o <<" ">>
                  \o selector2.selector) >>,
   error |-> NoError]

\* combine with its two operands exchanged
combine_Swapped(this, selector1, combinator, selector2) ==
  [this |-> this, selector1 |-> selector1, selector2 |-> selector2,
   ret |-> << SelectorBuilder(DefaultOrder,
                selector2.selector \o <<" ">> \o combinator \o <<" ">>
                  \o selector1.selector) >>,
   error |-> NoError]

\* combine starting its text from the receiver's
combine_FromReceiver(this, selector1, combinator, selector2) ==
  [this |-> this, selector1 |-> selector1, selector2 |-> selector2,
   ret |-> << SelectorBuilder(DefaultOrder,
                this.selector \o selector1.selector \o <<" ">> \o combinator
                  \o <<" ">> \o selector2.selector) >>,
   error |-> NoError]

\* SelectorBuilder.prototype.combine: the receiver and the two operands after
\* the call, and the object returned
combine(this, selector1, combinator, selector2) ==
  [this |-> this, selector1 |-> selector1, selector2 |-> selector2,
   ret |-> << SelectorBuilder(DefaultOrder,
                selector1.selector \o <<" ">> \o combinator \o <<" ">>
                  \o selector2.selector) >>,
   error |-> NoError]

\* a handler that extends the receiver in place and returns it
selectorHandler_InPlace(this, order, value) ==
  LET thrown == check(this, order, Config(order).unique)
      extended == SelectorBuilder(order, this.selector \o toString(order, value))
  IN IF thrown # NoError
     THEN [this |-> this, ret |-> <<>>, error |-> thrown]
     ELSE [this |-> extended, ret |-> <<extended>>, error |-> NoError]

\* a handler that extends the receiver in place before it checks
selectorHandler_LateCheck(this, order, value) ==
  LET thrown == check(this, order, Config(order).unique)
      extended == SelectorBuilder(order, this.selector \o toString(order, value))
  IN IF thrown # NoError
     THEN [this |-> extended, ret |-> <<>>, error |-> thrown]
     ELSE [this |-> this, ret |-> <<extended>>, error |-> NoError]

\* the handler selectorMaker({order, unique, toString}) returns: the receiver
\* after the call, the object returned (none when check throws) and the
\* message thrown
selectorHandler(this, order, value) ==
  LET thrown == check(this, order, Config(order).unique)
  IN IF thrown # NoError
     THEN [this |-> this, ret |-> <<>>, error |-> thrown]
     ELSE [this |-> this,
           ret |-> << SelectorBuilder(order, this.selector \o toString(order, value)) >>,
           error |-> NoError]

\* --------------------------------------------------------------- inputs
\* fragment values a caller passes
Values == { <<"t", "d">> }
\* combinator tokens a caller passes
Combinators == { <<" ">>, <<"+">> }

\* ------------------------------------------------------------- promises
\* The state of 06-promises-tasks.js.  A promise is its state and its value
\* (for a rejected one, the message of its Error).
VARIABLES
  isPositiveAnswer,  \* the argument of willYouMarryMe and $willYouMarryMe
  pcExecutor,        \* where willYouMarryMe's executor stands
  promiseExecutor,   \* the promise willYouMarryMe returns
  pcAsync,           \* where the body of $willYouMarryMe stands
  promiseAsync       \* the promise $willYouMarryMe returns

marryVars == <<isPositiveAnswer, pcExecutor, promiseExecutor, pcAsync, promiseAsync>>

VARIABLES
  promises,      \* chainPromises: the input promises
  action,        \* chainPromises: the action
  pcChain,       \* "idle" before the call of chainPromises, "called" after it
  jobs,          \* the microtask queue: the callbacks whose await is over
  resolved,      \* the array `resolved`
  rejected,      \* the array `rejected`
  chained,       \* the promise chainPromises returns
  resolveCalls   \* the number of calls of its resolve

chainVars == <<promises, action, pcChain, jobs, resolved, rejected, chained, resolveCalls>>

\* a promise nobody has settled, with a string for a value
PendingAnswer == [state |-> "pending", value |-> ""]
\* a promise nobody has settled, with a number for a value
PendingNumber == [state |-> "pending", value |-> 0]

\* nothing of willYouMarryMe or $willYouMarryMe has been called
MarryIdle ==
  /\ pcExecutor = "idle"
  /\ promiseExecutor = PendingAnswer
  /\ pcAsync = "idle"
  /\ promiseAsync = PendingAnswer

\* chainPromises has not been called
ChainIdle ==
  /\ pcChain = "idle"
  /\ jobs = <<>>
  /\ resolved = <<>>
  /\ rejected = <<>>
  /\ chained = PendingNumber
  /\ resolveCalls = 0

\* ---------------------------------------------------------------- state
VARIABLES
  heap,    \* the objects allocated so far: [obj, how], how = the calls that built obj
  thrown   \* the message of the Error the most recent call threw, or NoError

vars == <<heap, thrown>>

allVars == <<vars, marryVars, chainVars>>

\* the module as loaded: only the entry point exists
SelectorInit ==
  /\ heap = { [obj |-> cssSelectorBuilder, how |-> <<"new">>] }
  /\ thrown = NoError

Init ==
  /\ SelectorInit
  /\ isPositiveAnswer = [type |-> "undefined", truthy |-> FALSE]
  /\ MarryIdle
  /\ promises = <<>>
  /\ action = "add"
  /\ ChainIdle

\* the heap after a call: each object the call touched, as the call left it,
\* and the object it returned, built by `how`
After(touched, ret, how) ==
  (heap \ {t[1] : t \in touched})
    \cup { [t[1] EXCEPT !.obj = t[2]] : t \in touched }
    \cup { [obj |-> ret[i], how |-> how] : i \in 1..Len(ret) }

\* this.<kind>(value) for the kind at index `order`
CallSelector ==
  \E this \in heap, order \in Orders, value \in Values :
    LET r == selectorHandler(this.obj, order, value) IN
    /\ r.ret # <<>> => Cardinality(heap) < MaxHeap
    /\ heap' = After({<<this, r.this>>}, r.ret,
                     <<"selector", this.how, order, value>>)
    /\ thrown' = r.error
    /\ UNCHANGED <<marryVars, chainVars>>

\* this.combine(selector1, combinator, selector2)
CallCombine ==
  /\ Cardinality(heap) < MaxHeap
  /\ \E this \in heap, selector1 \in heap, selector2 \in heap,
        combinator \in Combinators :
       LET r == combine(this.obj, selector1.obj, combinator, selector2.obj) IN
       /\ heap' = After({<<this, r.this>>, <<selector1, r.selector1>>,
                         <<selector2, r.selector2>>}, r.ret,
                        <<"combine", selector1.how, combinator, selector2.how>>)
       /\ thrown' = r.error
       /\ UNCHANGED <<marryVars, chainVars>>

\* this.stringify()
CallStringify ==
  \E this \in heap :
    LET r == stringify(this.obj) IN
    /\ heap' = After({<<this, r.this>>}, <<>>, <<>>)
    /\ thrown' = NoError
    /\ UNCHANGED <<marryVars, chainVars>>

Next == CallSelector \/ CallCombine \/ CallStringify

Spec == Init /\ [][Next]_allVars

TypeOK ==
  /\ Cardinality(heap) \in 1..MaxHeap
  /\ \A e \in heap : e.obj.order \in -1..5

\* ------------------------------------------- vocabulary of the properties
\* ranks of the kinds that may occur once only: element, id, pseudoElement
NonRepeatable == {0, 1, 5}
\* ranks of the kinds that may repeat: class, attr, pseudoClass
Repeatable == {2, 3, 4}

\* what a fragment of each rank is to look like: v, #v, .v, [v], :v, ::v
Mark == << <<>>, <<"#">>, <<".">>, <<"[">>, <<":">>, <<":", ":">> >>
Close == << <<>>, <<>>, <<>>, <<"]">>, <<>>, <<>> >>
Rendered(rank, v) == Mark[rank + 1] \o v \o Close[rank + 1]

\* the object of the heap built by the calls `how`
Elem(how) == (CHOOSE e \in heap : e.how = how).obj

\* how was built by `new` and fragment appends alone
RECURSIVE IsChain(_)
IsChain(how) ==
  \/ how[1] = "new"
  \/ how[1] = "selector" /\ IsChain(how[2])

\* the fragments <<rank, value>> appended along a chain, in the order appended
RECURSIVE Fragments(_)
Fragments(how) ==
  IF how[1] = "selector"
  THEN Append(Fragments(how[2]), <<how[3], how[4]>>)
  ELSE <<>>

\* the compound segments of an expression: the fragments <<rank, value>>
\* between its combinators, in the order of its text
RECURSIVE Segments(_)
Segments(how) ==
  CASE how[1] = "new" -> << <<>> >>
    [] how[1] = "selector" ->
         LET s == Segments(how[2])
         IN [s EXCEPT ![Len(s)] = Append(@, <<how[3], how[4]>>)]
    [] how[1] = "combine" -> Segments(how[2]) \o Segments(how[4])

\* the text of a list of fragments, each rendered, nothing in between
RECURSIVE Concatenated(_)
Concatenated(frags) ==
  IF frags = <<>> THEN <<>>
  ELSE Rendered(frags[1][1], frags[1][2]) \o Concatenated(Tail(frags))

\* a segment in non-decreasing rank order with no non-repeatable kind twice
SegmentOK(seg) ==
  \A i, j \in 1..Len(seg) :
    i < j => /\ seg[i][1] <= seg[j][1]
             /\ seg[i][1] = seg[j][1] => seg[i][1] \in Repeatable

\* ----------------------------------------------------------------- claims
\* C1: on an expression whose most recent operation appended a kind of rank
\* r, appending any kind of rank below r throws the order-violation error and
\* returns nothing, for every such pair of kinds and whatever came before.
C1_LowerRankRaisesOrderViolation ==
  \A e \in heap :
    e.how[1] = "selector" =>
      \A order \in Orders, value \in Values :
        order < e.how[3] =>
          LET r == selectorHandler(e.obj, order, value)
          IN r.error = WRONG_ORDER /\ r.ret = <<>>

\* C1 witness: an append of a lower rank has just thrown the order violation,
\* and the heap holds an expression that ends in the highest rank.
C1_Witness ==
  /\ thrown = WRONG_ORDER
  /\ \E e \in heap : e.how[1] = "selector" /\ e.how[3] = 5

\* C2: on an expression whose most recent operation appended element, id or
\* pseudoElement, appending that same kind again throws the duplicate-unique
\* error, which is not the order-violation error, and returns nothing.
C2_RepeatedUniqueRaisesDuplicate ==
  /\ UNIQUES_REPEAT # WRONG_ORDER
  /\ \A e \in heap :
       (e.how[1] = "selector" /\ e.how[3] \in NonRepeatable) =>
         \A value \in Values :
           LET r == selectorHandler(e.obj, e.how[3], value)
           IN r.error = UNIQUES_REPEAT /\ r.ret = <<>>

\* C2 witness: the duplicate-unique error has just been thrown, and the heap
\* holds an expression built by a combine and ending in a non-repeatable kind.
C2_Witness ==
  /\ thrown = UNIQUES_REPEAT
  /\ \E e \in heap : /\ e.how[1] = "selector"
                     /\ e.how[3] \in NonRepeatable
                     /\ e.how[2][1] = "combine"

\* C3: in every expression built by appends and combines, each compound
\* segment is in non-decreasing rank order and holds no non-repeatable kind
\* more than once.
C3_EverySegmentOrderedAndUnique ==
  \A e \in heap :
    LET segs == Segments(e.how)
    IN \A i \in 1..Len(segs) : SegmentOK(segs[i])

\* C4: an expression built from the entry point by successful appends alone
\* has as text the rendered fragments in the order appended, nothing between
\* them, and as order the rank of the fragment appended last.
C4_ChainTextIsConcatenation ==
  \A e \in heap :
    IsChain(e.how) =>
      LET frags == Fragments(e.how)
      IN /\ e.obj.selector = Concatenated(frags)
         /\ e.obj.order = IF frags = <<>> THEN -1 ELSE frags[Len(frags)][1]

\* C4 witness: element, then attr, then pseudoClass, appended from the entry
\* point: the text is td[td]:td.
C4_Witness ==
  \E e \in heap :
    /\ IsChain(e.how)
    /\ Len(Fragments(e.how)) = 3
    /\ Fragments(e.how)[1][1] = 0
    /\ Fragments(e.how)[2][1] = 3
    /\ Fragments(e.how)[3][1] = 4
    /\ e.obj.selector = <<"t","d","[","t","d","]",":","t","d">>

\* C5: combine throws for no pair of operands, whatever their order, and the
\* expression it returns has the text left + ' ' + combinator + ' ' + right
\* (three spaces in a row for the descendant combinator ' ') and the order -1.
\* The first conjunct is about the combines made, the second about every
\* combine the heap has room for.
C5_CombinePadsAndResets ==
  /\ \A e \in heap :
       e.how[1] = "combine" =>
         /\ e.obj.selector = Elem(e.how[2]).selector \o <<" ">> \o e.how[3]
                               \o <<" ">> \o Elem(e.how[4]).selector
         /\ e.how[3] = <<" ">> =>
              e.obj.selector = Elem(e.how[2]).selector \o <<" ", " ", " ">>
                                 \o Elem(e.how[4]).selector
         /\ e.obj.order = -1
  /\ Cardinality(heap) < MaxHeap =>
       \A l \in heap, r \in heap, c \in Combinators :
         LET res == combine(cssSelectorBuilder, l.obj, c, r.obj)
         IN res.error = NoError /\ Len(res.ret) = 1

\* C5 witness: a combine with the descendant combinator whose left operand
\* ends in a higher rank than its right operand.
C5_Witness ==
  \E e \in heap :
    /\ e.how[1] = "combine"
    /\ e.how[3] = <<" ">>
    /\ Elem(e.how[2]).order > Elem(e.how[4]).order
    /\ Elem(e.how[4]).order >= 0

\* C6: the expression a combine returns accepts an append of each of the six
\* kinds, whatever its operands ended in, and what it then accepts next is
\* what the entry point accepts after the same append.  The first conjunct is
\* about every append the heap has room for, the second about those made.
C6_CombinedStartsFresh ==
  \A e \in heap :
    /\ (e.how[1] = "combine" /\ Cardinality(heap) < MaxHeap) =>
         \A order \in Orders, value \in Values :
           LET r == selectorHandler(e.obj, order, value)
               fresh == selectorHandler(cssSelectorBuilder, order, value)
           IN /\ r.error = NoError
              /\ r.ret = << [selector |-> e.obj.selector \o Rendered(order, value),
                             order |-> order] >>
              /\ \A next \in Orders :
                   check(r.ret[1], next, Config(next).unique)
                     = check(fresh.ret[1], next, Config(next).unique)
    /\ (e.how[1] = "selector" /\ e.how[2][1] = "combine") =>
         e.obj = [selector |-> Elem(e.how[2]).selector \o Rendered(e.how[3], e.how[4]),
                  order |-> e.how[3]]

\* C6 witness: an element appended to a combined expression whose two
\* operands both end in a pseudo-element.
C6_Witness ==
  \E e \in heap :
    /\ e.how[1] = "selector"
    /\ e.how[3] = 0
    /\ e.how[2][1] = "combine"
    /\ Elem(e.how[2][2]).order = 5
    /\ Elem(e.how[2][4]).order = 5

\* the text A c1 B c2 C, one space on each side of each combinator
Layout(A, c1, B, c2, C) ==
  A.selector \o <<" ">> \o c1 \o <<" ">> \o B.selector
    \o <<" ">> \o c2 \o <<" ">> \o C.selector

\* C7: combine(combine(A, c1, B), c2, C) and combine(A, c1, combine(B, c2, C))
\* have the same text, A c1 B c2 C, and the same order, for all expressions
\* A, B, C the heap holds while it has room for the two objects of a nesting.
C7_CombineAssociative ==
  /\ \A e \in heap :
       /\ (e.how[1] = "combine" /\ e.how[2][1] = "combine") =>
            e.obj.selector = Layout(Elem(e.how[2][2]), e.how[2][3], Elem(e.how[2][4]),
                                    e.how[3], Elem(e.how[4]))
       /\ (e.how[1] = "combine" /\ e.how[4][1] = "combine") =>
            e.obj.selector = Layout(Elem(e.how[2]), e.how[3], Elem(e.how[4][2]),
                                    e.how[4][3], Elem(e.how[4][4]))
  /\ Cardinality(heap) + 2 <= MaxHeap =>
       \A A \in heap, B \in heap, C \in heap, c1 \in Combinators, c2 \in Combinators :
         LET ab == combine(cssSelectorBuilder, A.obj, c1, B.obj).ret[1]
             left == combine(cssSelectorBuilder, ab, c2, C.obj).ret[1]
             bc == combine(cssSelectorBuilder, B.obj, c2, C.obj).ret[1]
             right == combine(cssSelectorBuilder, A.obj, c1, bc).ret[1]
         IN /\ left.selector = Layout(A.obj, c1, B.obj, c2, C.obj)
            /\ right.selector = left.selector
            /\ right.order = left.order

\* C7 witness: a combine of a combine with a third expression, with two
\* different combinators, none of the three expressions empty.
C7_Witness ==
  \E e \in heap :
    /\ e.how[1] = "combine"
    /\ e.how[2][1] = "combine"
    /\ e.how[2][3] # e.how[3]
    /\ Elem(e.how[2][2]).selector # <<>>
    /\ Elem(e.how[2][4]).selector # <<>>
    /\ Elem(e.how[4]).selector # <<>>

\* C8: no call changes an object that exists: after every append, combine and
\* stringify each object of the heap is as it was, the receiver and the
\* operands included, and the entry point is still the empty expression of
\* order -1.
C8_NoCallChangesAnObject ==
  [][ /\ \A e \in heap : e \in heap'
      /\ [obj |-> [selector |-> <<>>, order |-> -1], how |-> <<"new">>] \in heap'
    ]_vars

\* C8 witness: two different continuations of one retained expression that
\* is not the entry point, which itself is still empty.
C8_Witness ==
  /\ [obj |-> [selector |-> <<>>, order |-> -1], how |-> <<"new">>] \in heap
  /\ \E e1 \in heap, e2 \in heap :
       /\ e1 # e2
       /\ e1.how[1] = "selector" /\ e2.how[1] = "selector"
       /\ e1.how[2] = e2.how[2]
       /\ e1.how[2] # <<"new">>
       /\ Elem(e1.how[2]).selector \o Rendered(e1.how[3], e1.how[4]) = e1.obj.selector
       /\ Elem(e2.how[2]).selector \o Rendered(e2.how[3], e2.how[4]) = e2.obj.selector

\* C9: a call that throws adds no object to the heap and leaves every object
\* of it, the receiver included, as it was, so that every later call on the
\* receiver finds the state it would have found without the failed call.
C9_FailedAppendChangesNothing ==
  [][ thrown' # NoError => heap' = heap ]_vars

\* C9 witness: the one expression built so far has just refused an append of
\* a lower rank, and the heap holds it and the entry point, nothing else.
C9_Witness ==
  /\ thrown = WRONG_ORDER
  /\ Cardinality(heap) = 2
  /\ \E e \in heap : e.how[1] = "selector" /\ e.obj.order = e.how[3]

\* C10: an append of a rank above the receiver's order never throws, nor does
\* an append of the receiver's own rank when the kind is class, attr or
\* pseudoClass; the same repeatable kind appended twice in a row gives a text
\* that ends in the two rendered fragments in the order appended.
C10_HigherOrRepeatableSucceeds ==
  /\ \A e \in heap, order \in Orders, value \in Values :
       (order > e.obj.order \/ (order = e.obj.order /\ order \in Repeatable)) =>
         LET r == selectorHandler(e.obj, order, value)
         IN r.error = NoError /\ Len(r.ret) = 1
  /\ \A e \in heap :
       ( /\ e.how[1] = "selector"
         /\ e.how[2][1] = "selector"
         /\ e.how[3] = e.how[2][3] ) =>
         e.obj.selector = Elem(e.how[2][2]).selector
                            \o Rendered(e.how[2][3], e.how[2][4])
                            \o Rendered(e.how[3], e.how[4])

\* C10 witness: a class appended to an expression that ends in a class.
C10_Witness ==
  \E e \in heap :
    /\ e.how[1] = "selector"
    /\ e.how[2][1] = "selector"
    /\ e.how[3] = 2
    /\ e.how[2][3] = 2
    /\ e.obj.selector = <<".","t","d",".","t","d">>

\* the number of fragments of rank k in a list of fragments
RECURSIVE Occurrences(_, _)
Occurrences(frags, k) ==
  IF frags = <<>> THEN 0
  ELSE (IF frags[1][1] = k THEN 1 ELSE 0) + Occurrences(Tail(frags), k)

\* C13: in an expression built from the entry point by successful appends
\* alone the ranks never decrease, so that a second element, id or
\* pseudoElement could only follow the first at once, where check refuses it:
\* each of the three occurs at most once.
C13_ChainHoldsEachUniqueOnce ==
  \A e \in heap :
    IsChain(e.how) =>
      LET frags == Fragments(e.how)
      IN /\ \A i \in 1..(Len(frags) - 1) : frags[i][1] <= frags[i + 1][1]
         /\ \A k \in NonRepeatable : Occurrences(frags, k) <= 1

\* C13 witness: element, id and pseudoElement appended in a row, each once.
C13_Witness ==
  \E e \in heap :
    /\ IsChain(e.how)
    /\ Len(Fragments(e.how)) = 3
    /\ \A k \in NonRepeatable : Occurrences(Fragments(e.how), k) = 1

\* the two messages, letter by letter
OrderViolationMessage ==
  <<"S","e","l","e","c","t","o","r"," ","p","a","r","t","s"," ","s",
  "h","o","u","l","d"," ","b","e"," ","a","r","r","a","n","g","e",
  "d"," ","i","n"," ","t","h","e"," ","f","o","l","l","o","w","i",
  "n","g"," ","o","r","d","e","r",":"," ","e","l","e","m","e","n",
  "t",","," ","i","d",","," ","c","l","a","s","s",","," ","a","t",
  "t","r","i","b","u","t","e",","," ","p","s","e","u","d","o","-",
  "c","l","a","s","s",","," ","p","s","e","u","d","o","-","e","l",
  "e","m","e","n","t">>

DuplicateUniqueMessage ==
  <<"E","l","e","m","e","n","t",","," ","i","d"," ","a","n","d"," ",
  "p","s","e","u","d","o","-","e","l","e","m","e","n","t"," ","s",
  "h","o","u","l","d"," ","n","o","t"," ","o","c","c","u","r"," ",
  "m","o","r","e"," ","t","h","e","n"," ","o","n","e"," ","t","i",
  "m","e"," ","i","n","s","i","d","e"," ","t","h","e"," ","s","e",
  "l","e","c","t","o","r">>

\* C14: every order violation carries the one message that lists the six
\* labels in rank order, every duplicate-unique failure the one message that
\* names element, id and pseudo-element; the two differ, and which kinds were
\* involved in the failing call changes neither.
C14_MessagesAreFixed ==
  /\ OrderViolationMessage # DuplicateUniqueMessage
  /\ thrown \in {NoError, OrderViolationMessage, DuplicateUniqueMessage}
  /\ \A e \in heap, order \in Orders, value \in Values :
       LET r == selectorHandler(e.obj, order, value)
       IN /\ e.obj.order > order => r.error = OrderViolationMessage
          /\ (e.obj.order = order /\ order \in NonRepeatable) =>
               r.error = DuplicateUniqueMessage

\* C14 witness: the duplicate-unique message has just been thrown, and the
\* heap holds an expression that ends in an id.
C14_Witness ==
  /\ thrown = DuplicateUniqueMessage
  /\ \E e \in heap : e.obj.order = 1

\* C17: what combine returns is decided by its three arguments: called on any
\* two receivers it returns objects of the same text and order, and the text
\* is that of the two operands and the combinator, with nothing of the
\* receiver in it; for every combine the heap has room for.
C17_CombineIgnoresReceiver ==
  Cardinality(heap) < MaxHeap =>
    \A r1 \in heap, r2 \in heap, a \in heap, b \in heap, c \in Combinators :
      LET x == combine(r1.obj, a.obj, c, b.obj).ret[1]
          y == combine(r2.obj, a.obj, c, b.obj).ret[1]
      IN /\ x.selector = y.selector
         /\ x.order = y.order
         /\ x.selector = a.obj.selector \o <<" ">> \o c \o <<" ">> \o b.obj.selector

\* C17 witness: the heap holds a combined expression and an expression with
\* a text of its own that is neither of its operands.
C17_Witness ==
  \E e \in heap, x \in heap :
    /\ e.how[1] = "combine"
    /\ x.obj.selector # <<>>
    /\ x # e
    /\ x.how # e.how[2]
    /\ x.how # e.how[4]
    /\ Elem(e.how[2]).selector # <<>>

\* ------------------------------------------- promises: settling a promise
\* resolve(value) of a promise: it settles a pending promise and is ignored by
\* a settled one
resolve(promise, value) ==
  IF promise.state = "pending"
  THEN [state |-> "fulfilled", value |-> value]
  ELSE promise

\* reject(new Error(message)) of a promise, likewise
reject(promise, message) ==
  IF promise.state = "pending"
  THEN [state |-> "rejected", value |-> message]
  ELSE promise

\* ------------------------------------------------------ willYouMarryMe
ERR == "Wrong parameter is passed! Ask her again."
YES == "Hooray!!! She said \"Yes\"!"
REJ == "Oh no, she said \"No\"."

\* the arguments tried: a JavaScript value is its typeof and its truthiness
Answers ==
  { [type |-> "boolean", truthy |-> TRUE],  [type |-> "boolean", truthy |-> FALSE],
    [type |-> "undefined", truthy |-> FALSE],
    [type |-> "object", truthy |-> FALSE],  [type |-> "object", truthy |-> TRUE],
    [type |-> "number", truthy |-> FALSE],  [type |-> "number", truthy |-> TRUE],
    [type |-> "string", truthy |-> FALSE],  [type |-> "string", truthy |-> TRUE] }

\* typeof isPositiveAnswer !== 'boolean'
notBoolean(answer) == answer.type # "boolean"

\* isPositiveAnswer ? YES : REJ
said(answer) == IF answer.truthy THEN YES ELSE REJ

executor_ResolveFirst(pc, promise, answer) ==
  CASE pc = "test" ->
         [pc |-> IF notBoolean(answer) THEN "reject" ELSE "returned",
          promise |-> resolve(promise, said(answer))]
    [] pc = "reject" ->
         [pc |-> "returned", promise |-> reject(promise, ERR)]
    [] OTHER -> [pc |-> pc, promise |-> promise]

\* one step of the executor of willYouMarryMe: the test, the reject inside the
\* if, which does not return, and the resolve after the if
executor(pc, promise, answer) ==
  CASE pc = "test" ->
         [pc |-> IF notBoolean(answer) THEN "reject" ELSE "resolve",
          promise |-> promise]
    [] pc = "reject" ->
         [pc |-> "resolve", promise |-> reject(promise, ERR)]
    [] pc = "resolve" ->
         [pc |-> "returned", promise |-> resolve(promise, said(answer))]
    [] OTHER -> [pc |-> pc, promise |-> promise]

asyncBody_NoTest(pc, promise, answer) ==
  CASE pc = "test" -> [pc |-> "return", promise |-> promise]
    [] pc = "return" ->
         [pc |-> "returned", promise |-> resolve(promise, said(answer))]
    [] OTHER -> [pc |-> pc, promise |-> promise]

\* one step of the body of the async function $willYouMarryMe: a throw rejects
\* the promise of the call and ends the body, a return fulfils it
asyncBody(pc, promise, answer) ==
  CASE pc = "test" ->
         [pc |-> IF notBoolean(answer) THEN "throw" ELSE "return",
          promise |-> promise]
    [] pc = "throw" ->
         [pc |-> "returned", promise |-> reject(promise, ERR)]
    [] pc = "return" ->
         [pc |-> "returned", promise |-> resolve(promise, said(answer))]
    [] OTHER -> [pc |-> pc, promise |-> promise]

\* a call runs to its end before the other one starts
Running(pc) == pc \notin {"idle", "returned"}

\* willYouMarryMe(isPositiveAnswer): new Promise enters the executor
CallWillYouMarryMe ==
  /\ pcExecutor = "idle"
  /\ ~Running(pcAsync)
  /\ pcExecutor' = "test"
  /\ promiseExecutor' = PendingAnswer
  /\ UNCHANGED <<isPositiveAnswer, pcAsync, promiseAsync, vars, chainVars>>

StepExecutor ==
  /\ Running(pcExecutor)
  /\ LET r == executor(pcExecutor, promiseExecutor, isPositiveAnswer) IN
       /\ pcExecutor' = r.pc
       /\ promiseExecutor' = r.promise
  /\ UNCHANGED <<isPositiveAnswer, pcAsync, promiseAsync, vars, chainVars>>

\* $willYouMarryMe(isPositiveAnswer): the call makes the promise and runs the body
CallAsyncWillYouMarryMe ==
  /\ pcAsync = "idle"
  /\ ~Running(pcExecutor)
  /\ pcAsync' = "test"
  /\ promiseAsync' = PendingAnswer
  /\ UNCHANGED <<isPositiveAnswer, pcExecutor, promiseExecutor, vars, chainVars>>

StepAsync ==
  /\ Running(pcAsync)
  /\ LET r == asyncBody(pcAsync, promiseAsync, isPositiveAnswer) IN
       /\ pcAsync' = r.pc
       /\ promiseAsync' = r.promise
  /\ UNCHANGED <<isPositiveAnswer, pcExecutor, promiseExecutor, vars, chainVars>>

MarryInit ==
  /\ SelectorInit
  /\ isPositiveAnswer \in Answers
  /\ MarryIdle
  /\ promises = <<>>
  /\ action = "add"
  /\ ChainIdle

MarryNext ==
  \/ CallWillYouMarryMe
  \/ StepExecutor
  \/ CallAsyncWillYouMarryMe
  \/ StepAsync

SpecMarry == MarryInit /\ [][MarryNext]_allVars

\* C12: willYouMarryMe(x) ends fulfilled with 'Hooray!!! She said "Yes"!' for
\* true, fulfilled with 'Oh no, she said "No".' for false, and rejected with
\* the message 'Wrong parameter is passed! Ask her again.' for every x that
\* is not a boolean; for such an x the promise is at no moment fulfilled,
\* although the executor goes on to call resolve after reject.
C12_MarryMeOutcome ==
  /\ notBoolean(isPositiveAnswer) => promiseExecutor.state # "fulfilled"
  /\ pcExecutor = "returned" =>
       promiseExecutor =
         IF isPositiveAnswer.type = "boolean"
         THEN IF isPositiveAnswer.truthy
              THEN [state |-> "fulfilled", value |-> "Hooray!!! She said \"Yes\"!"]
              ELSE [state |-> "fulfilled", value |-> "Oh no, she said \"No\"."]
         ELSE [state |-> "rejected",
               value |-> "Wrong parameter is passed! Ask her again."]

\* the executor has run to its end, past the resolve, for a truthy string
C12_Witness ==
  /\ pcExecutor = "returned"
  /\ isPositiveAnswer = [type |-> "string", truthy |-> TRUE]
  /\ promiseExecutor.state = "rejected"

\* C18: $willYouMarryMe and willYouMarryMe end in the same state with the same
\* value or the same error message, for true, for false and for every
\* argument that is not a boolean, undefined included.
C18_BothFormsAgree ==
  (pcExecutor = "returned" /\ pcAsync = "returned") =>
    /\ promiseExecutor.state # "pending"
    /\ promiseAsync = promiseExecutor

\* both calls are over for undefined, and both ended rejected
C18_Witness ==
  /\ pcExecutor = "returned"
  /\ pcAsync = "returned"
  /\ isPositiveAnswer.type = "undefined"
  /\ promiseAsync.state = "rejected"

\* --------------------------------------------------------- chainPromises
MaxPromises == 3

\* the actions tried: (a, b) => a + b and (a, b) => a - b
Actions == {"add", "sub"}

apply(act, a, b) == IF act = "add" THEN a + b ELSE a - b

\* array.reduce(action) of a non-empty array, with no initial value
RECURSIVE reduce(_, _)
reduce(array, act) ==
  IF Len(array) = 1
  THEN array[1]
  ELSE apply(act, reduce(SubSeq(array, 1, Len(array) - 1), act), array[Len(array)])

\* the value the i-th input promise is fulfilled with, when it is
Value(i) == i

Fulfilled(i) == [state |-> "fulfilled", value |-> Value(i)]
Rejected == [state |-> "rejected", value |-> 0]
\* the states an input promise can be in
InputStates(i) == {PendingNumber, Rejected, Fulfilled(i)}

\* the arrays of n input promises
Inputs(n) ==
  { array \in [ 1..n -> UNION { InputStates(i) : i \in 1..n } ] :
      \A i \in 1..n : array[i] \in InputStates(i) }

asyncCallback_NoCount(c, promise, length, act) ==
  IF promise.state = "fulfilled"
  THEN LET pushed == Append(c.resolved, promise.value) IN
         [c EXCEPT !.resolved = pushed,
                   !.chained = resolve(c.chained, reduce(pushed, act)),
                   !.resolveCalls = c.resolveCalls + 1]
  ELSE [c EXCEPT !.rejected = Append(c.rejected, promise.value)]

\* the rest of the forEach callback once its await is over: the try block for
\* a fulfilled promise, the catch block for a rejected one
asyncCallback(c, promise, length, act) ==
  IF promise.state = "fulfilled"
  THEN LET pushed == Append(c.resolved, promise.value) IN
         IF Len(pushed) + Len(c.rejected) = length
         THEN [c EXCEPT !.resolved = pushed,
                        !.chained = resolve(c.chained, reduce(pushed, act)),
                        !.resolveCalls = c.resolveCalls + 1]
         ELSE [c EXCEPT !.resolved = pushed]
  ELSE [c EXCEPT !.rejected = Append(c.rejected, promise.value)]

\* the indices of array, in order, whose element is settled
RECURSIVE Settled(_, _)
Settled(array, i) ==
  IF i > Len(array) THEN <<>>
  ELSE (IF array[i].state # "pending" THEN <<i>> ELSE <<>>) \o Settled(array, i + 1)

\* chainPromises(promises, action): the executor runs forEach, every callback
\* runs up to its await; the continuation of an await on a settled promise is
\* queued at once, in array order
CallChainPromises ==
  /\ pcChain = "idle"
  /\ pcChain' = "called"
  /\ chained' = PendingNumber
  /\ resolved' = <<>>
  /\ rejected' = <<>>
  /\ resolveCalls' = 0
  /\ jobs' = Settled(promises, 1)
  /\ UNCHANGED <<promises, action, vars, marryVars>>

\* an input promise that was pending settles: the continuation of the await
\* on it is queued
Settle ==
  /\ pcChain = "called"
  /\ \E i \in 1..Len(promises) : \E outcome \in {Fulfilled(i), Rejected} :
       /\ promises[i].state = "pending"
       /\ promises' = [promises EXCEPT ![i] = outcome]
       /\ jobs' = Append(jobs, i)
  /\ UNCHANGED <<action, pcChain, resolved, rejected, chained, resolveCalls,
                 vars, marryVars>>

\* the oldest queued continuation runs to its end
RunCallback ==
  /\ jobs # <<>>
  /\ LET c == asyncCallback([resolved |-> resolved, rejected |-> rejected,
                             chained |-> chained, resolveCalls |-> resolveCalls],
                            promises[Head(jobs)], Len(promises), action) IN
       /\ resolved' = c.resolved
       /\ rejected' = c.rejected
       /\ chained' = c.chained
       /\ resolveCalls' = c.resolveCalls
  /\ jobs' = Tail(jobs)
  /\ UNCHANGED <<promises, action, pcChain, vars, marryVars>>

ChainInit ==
  /\ SelectorInit
  /\ isPositiveAnswer = [type |-> "undefined", truthy |-> FALSE]
  /\ MarryIdle
  /\ \E n \in 0..MaxPromises : promises \in Inputs(n)
  /\ action \in Actions
  /\ ChainIdle

ChainNext ==
  \/ CallChainPromises
  \/ Settle
  \/ RunCallback

SpecChain == ChainInit /\ [][ChainNext]_allVars

\* every callback has run: each input is settled and no continuation waits
AllHandled ==
  /\ pcChain = "called"
  /\ jobs = <<>>
  /\ \A i \in 1..Len(promises) : promises[i].state # "pending"

\* C11: once every input promise has settled and been handled, and at least
\* one of them is fulfilled, the promise chainPromises returned is resolved
\* with action reduced over the values of the fulfilled inputs; a rejected
\* input is skipped and does not prevent the resolution, wherever it stands
\* in the array and whenever it settles, last included.
C11_SettledInputsResolveChain ==
  (AllHandled /\ \E i \in 1..Len(promises) : promises[i].state = "fulfilled") =>
    chained = [state |-> "fulfilled", value |-> reduce(resolved, action)]

\* the values of the input promises, in the order of the array
ArrayValues == [ i \in 1..Len(promises) |-> promises[i].value ]

\* C15: when every input promise is fulfilled, the value chainPromises resolves
\* with is action folded from left to right over the values in the order of
\* the input array, in whichever order the inputs settled.
C15_ResultFoldsInArrayOrder ==
  (chained.state = "fulfilled"
     /\ \A i \in 1..Len(promises) : promises[i].state = "fulfilled") =>
    chained.value = reduce(ArrayValues, action)

\* C16: chainPromises does not resolve the promise it returned while an input
\* promise is pending, and it calls resolve at most once, in every order of
\* settlements and callbacks.
C16_ResolvedOnceAfterAllSettled ==
  /\ resolveCalls <= 1
  /\ (resolveCalls > 0 \/ chained.state # "pending") =>
       /\ \A i \in 1..Len(promises) : promises[i].state # "pending"
       /\ Len(resolved) + Len(rejected) = Len(promises)

\* resolve has been called, for an array holding a promise that was rejected
\* and one that settled after the call
C16_Witness ==
  /\ resolveCalls = 1
  /\ chained.state = "fulfilled"
  /\ Len(rejected) >= 1
  /\ Len(resolved) >= 2
  /\ resolved[1] > resolved[2]


============================================================================
